---- MODULE Spec2Model ----
(***************************************************************************)
(* AQDx validator: the two custom checks of src/src/validate_aqdx.py       *)
(* (DecimalPrecisionCheck, GeoLogicCheck) and the validation run that      *)
(* main() starts with validate(data_file, schema, checks=[...]).           *)
(*                                                                         *)
(* Text is a sequence of one-character strings, so that parsing is         *)
(* something the model computes.  A Python Optional is a sequence of       *)
(* length 0 (None) or 1 (the value).                                       *)
(***************************************************************************)
EXTENDS Integers, Sequences, FiniteSets, TLC

VARIABLES
    schema,     \* the Schema given to validate(): a sequence of fields
    file,       \* the data file: a sequence of rows (field name -> cell)
    rowNumber,  \* row_number of the row last read (0 before the first)
    pc,         \* "read" | "decimal" | "geo" | "done" | "raised"
    errors,     \* the errors the checks have yielded so far, in yield order
    stdout,     \* what GeoLogicCheck has printed so far
    report      \* None until validate() returns; then the report

vars == <<schema, file, rowNumber, pc, errors, stdout, report>>

\* ---------------------------------------------------------------- bounds
MaxLen == 4     \* longest cell text enumerated exhaustively
MaxRows == 3    \* longest data file of the whole-run specification
MaxPrec == 3    \* largest decimalPrecision / decimalScale enumerated

\* ------------------------------------------------------------- optionals
None == <<>>
Some(x) == <<x>>
IsNone(o) == Len(o) = 0
The(o) == o[1]

\* ------------------------------------------------------------------ text
Digits == {"0", "1", "2", "3", "4", "5", "6", "7", "8", "9"}

DigitVal(c) ==
    CASE c = "0" -> 0 [] c = "1" -> 1 [] c = "2" -> 2 [] c = "3" -> 3
      [] c = "4" -> 4 [] c = "5" -> 5 [] c = "6" -> 6 [] c = "7" -> 7
      [] c = "8" -> 8 [] c = "9" -> 9

Pow10(n) == IF n <= 0 THEN 1 ELSE LET P[i \in 0..n] == IF i = 0 THEN 1 ELSE 10 * P[i - 1] IN P[n]

Max(a, b) == IF a >= b THEN a ELSE b

\* A leading sign, as both Decimal() and float() accept it.
HasSign(t) == Len(t) > 0 /\ t[1] \in {"-", "+"}
Unsigned(t) == IF HasSign(t) THEN Tail(t) ELSE t
SignOf(t) == IF Len(t) > 0 /\ t[1] = "-" THEN 1 ELSE 0

\* Position of the first "." of t, 0 when there is none.
PointPos(t) ==
    LET ps == {i \in 1..Len(t) : t[i] = "."}
    IN  IF ps = {} THEN 0 ELSE CHOOSE i \in ps : \A j \in ps : i <= j

IntPart(t) == IF PointPos(t) = 0 THEN t ELSE SubSeq(t, 1, PointPos(t) - 1)
FracPart(t) == IF PointPos(t) = 0 THEN <<>> ELSE SubSeq(t, PointPos(t) + 1, Len(t))

AllDigits(s) == \A i \in 1..Len(s) : s[i] \in Digits

\* The numeric-string grammar shared by Decimal() and float(), without an
\* exponent part: [sign] digits [. [digits]] | [sign] . digits
IsNumeral(t) ==
    LET u == Unsigned(t)
    IN  /\ AllDigits(IntPart(u))
        /\ AllDigits(FracPart(u))
        /\ Len(IntPart(u)) + Len(FracPart(u)) >= 1

\* int(intpart + fracpart)
ToInt(s) ==
    LET V[i \in 0..Len(s)] == IF i = 0 THEN 0 ELSE 10 * V[i - 1] + DigitVal(s[i])
    IN  V[Len(s)]

\* tuple(map(int, str(n))): the decimal digits of a non-negative integer
RECURSIVE DigitsOf(_)
DigitsOf(n) == IF n < 10 THEN <<n>> ELSE Append(DigitsOf(n \div 10), n % 10)

\* Spellings of the special values, as they occur in the inputs.
NaNSpellings == {<<"N", "a", "N">>, <<"n", "a", "n">>}
InfSpellings == {<<"I", "n", "f">>, <<"i", "n", "f">>,
                 <<"I", "n", "f", "i", "n", "i", "t", "y">>}

\* Decimal(text).as_tuple(): (sign, digits, exponent).  ok = FALSE stands
\* for decimal.InvalidOperation.  For the special values the exponent is a
\* letter ('n', 'F'), not an integer: is_special says so.
Decimal(t) ==
    LET u == Unsigned(t)
    IN  IF u \in NaNSpellings
        THEN [ok |-> TRUE, is_special |-> TRUE, sign |-> SignOf(t),
              digits |-> <<>>, exponent |-> 0, letter |-> "n"]
        ELSE IF u \in InfSpellings
        THEN [ok |-> TRUE, is_special |-> TRUE, sign |-> SignOf(t),
              digits |-> <<0>>, exponent |-> 0, letter |-> "F"]
        ELSE IF IsNumeral(t)
        THEN [ok |-> TRUE, is_special |-> FALSE, sign |-> SignOf(t),
              digits |-> DigitsOf(ToInt(IntPart(u) \o FracPart(u))),
              exponent |-> 0 - Len(FracPart(u)), letter |-> ""]
        ELSE [ok |-> FALSE, is_special |-> FALSE, sign |-> 0,
              digits |-> <<>>, exponent |-> 0, letter |-> ""]

\* float(text).  ok = FALSE stands for ValueError.  A finite value is kept
\* exactly, as sign * coeff / 10^frac with trailing zeros of the fraction
\* dropped (40.0 and 40 are the same float).  The texts of the inputs have
\* far fewer than 15 significant digits, where binary64 compares with the
\* integers 0, 24, 50, -125 and -66 exactly as the decimal value does.
RECURSIVE Normal(_, _)
Normal(c, f) == IF f > 0 /\ c % 10 = 0 THEN Normal(c \div 10, f - 1) ELSE <<c, f>>

float(t) ==
    LET u == Unsigned(t)
        s == IF SignOf(t) = 1 THEN -1 ELSE 1
    IN  IF u \in NaNSpellings
        THEN [ok |-> TRUE, cls |-> "nan", sign |-> s, coeff |-> 0, frac |-> 0]
        ELSE IF u \in InfSpellings
        THEN [ok |-> TRUE, cls |-> "inf", sign |-> s, coeff |-> 0, frac |-> 0]
        ELSE IF IsNumeral(t)
        THEN LET n == Normal(ToInt(IntPart(u) \o FracPart(u)), Len(FracPart(u)))
             IN  [ok |-> TRUE, cls |-> "fin", sign |-> s, coeff |-> n[1], frac |-> n[2]]
        ELSE [ok |-> FALSE, cls |-> "nan", sign |-> 1, coeff |-> 0, frac |-> 0]

\* b <= x and x <= b for an integer b and a float x (false for nan).
LeqFloat(b, x) ==
    CASE x.cls = "fin" -> b * Pow10(x.frac) <= x.sign * x.coeff
      [] x.cls = "inf" -> x.sign = 1
      [] OTHER -> FALSE
FloatLeq(x, b) ==
    CASE x.cls = "fin" -> x.sign * x.coeff <= b * Pow10(x.frac)
      [] x.cls = "inf" -> x.sign = -1
      [] OTHER -> FALSE
\* x == 0.0 (true for -0.0 too)
IsZeroFloat(x) == x.cls = "fin" /\ x.coeff = 0

\* ---------------------------------------------------------------- schema
\* A field: [name, type, constraints, custom].  constraints and custom are
\* dicts; a key that is absent reads None through .get().
FieldNames == {"value", "lat", "lon"}

NoConstraints == [required |-> None, decimalPrecision |-> None, decimalScale |-> None]
NoCustom == [decimalPrecision |-> None, decimalScale |-> None]

\* bool(field.constraints): a dict is falsy exactly when it is empty
HasConstraints(field) ==
    \/ ~IsNone(field.constraints.required)
    \/ ~IsNone(field.constraints.decimalPrecision)
    \/ ~IsNone(field.constraints.decimalScale)

\* bool(x) of an Optional[int]: None and 0 are falsy
Truthy(o) == ~IsNone(o) /\ The(o) # 0

\* ------------------------------------------------- DecimalPrecisionCheck
max_prec_of(field) ==
    IF IsNone(field.constraints.decimalPrecision)
    THEN field.custom.decimalPrecision
    ELSE field.constraints.decimalPrecision

\* Mutant: the fallback of the scale reads the precision's key.
max_scale_of_wrong_key(field) ==
    IF IsNone(field.constraints.decimalScale)
    THEN field.custom.decimalPrecision
    ELSE field.constraints.decimalScale

max_scale_of(field) ==
    IF IsNone(field.constraints.decimalScale)
    THEN field.custom.decimalScale
    ELSE field.constraints.decimalScale

\* The two `continue`s that skip a field before its value is read.
FieldSkipped(field) ==
    \/ field.type # "number"
    \/ ~HasConstraints(field)
    \/ ~Truthy(max_prec_of(field))
    \/ ~Truthy(max_scale_of(field))

\* scale = abs(dt.exponent) if dt.exponent < 0 else 0
scale_of(dt) == IF dt.exponent < 0 THEN 0 - dt.exponent ELSE 0
num_digits_of(dt) == Len(dt.digits)
\* Mutant: the integer part is not clamped at 0.
int_part_of_unclamped(dt) == num_digits_of(dt) - scale_of(dt)

int_part_of(dt) == Max(0, num_digits_of(dt) - scale_of(dt))

DecimalPrecisionError(row_number, field, val, kind, observed, limit) ==
    [code |-> "decimal-precision-error", rowNumber |-> row_number,
     fieldName |-> Some(field.name), value |-> val,
     note |-> [kind |-> kind, observed |-> observed, limit |-> limit],
     precision |-> The(max_prec_of(field)), scale |-> The(max_scale_of(field))]

\* Mutant: the precision is compared before the scale.
Verdict_precision_first(row_number, field, val, dt) ==
    LET scale == scale_of(dt)
        int_part == int_part_of(dt)
        max_prec == The(max_prec_of(field))
        max_scale == The(max_scale_of(field))
    IN  IF int_part + scale > max_prec
        THEN <<DecimalPrecisionError(row_number, field, val, "Precision",
                                     int_part + scale, max_prec)>>
        ELSE IF scale > max_scale
        THEN <<DecimalPrecisionError(row_number, field, val, "Scale", scale, max_scale)>>
        ELSE <<>>

\* The if / elif that decides which error, if any, a classified value gets.
Verdict(row_number, field, val, dt) ==
    LET scale == scale_of(dt)
        int_part == int_part_of(dt)
        max_prec == The(max_prec_of(field))
        max_scale == The(max_scale_of(field))
    IN  IF scale > max_scale
        THEN <<DecimalPrecisionError(row_number, field, val, "Scale", scale, max_scale)>>
        ELSE IF int_part + scale > max_prec
        THEN <<DecimalPrecisionError(row_number, field, val, "Precision",
                                     int_part + scale, max_prec)>>
        ELSE <<>>

\* The try block for one value: [errs, raised].  InvalidOperation is caught;
\* for NaN and Infinity `dt.exponent < 0` compares a str with an int, and the
\* TypeError that raises is not among the exceptions the block catches.
TryBlock(row_number, field, val) ==
    LET dt == Decimal(val)
    IN  IF ~dt.ok THEN [errs |-> <<>>, raised |-> FALSE]
        ELSE IF dt.is_special THEN [errs |-> <<>>, raised |-> TRUE]
        ELSE [errs |-> Verdict(row_number, field, val, dt), raised |-> FALSE]

\* Mutant: the first row is taken for the header and skipped.
CheckField_skips_first_row(row_number, field, row) ==
    IF row_number = 1 \/ FieldSkipped(field) \/ IsNone(row[field.name])
    THEN [errs |-> <<>>, raised |-> FALSE]
    ELSE TryBlock(row_number, field, The(row[field.name]))

\* One iteration of `for field in self.resource.schema.fields`.
CheckField(row_number, field, row) ==
    IF FieldSkipped(field) \/ IsNone(row[field.name])
    THEN [errs |-> <<>>, raised |-> FALSE]
    ELSE TryBlock(row_number, field, The(row[field.name]))

\* The generator, run to its end or to the exception that leaves it: the
\* errors it yielded, in order, and whether it raised.
RECURSIVE FieldLoop(_, _, _, _)
FieldLoop(fields, row_number, row, k) ==
    IF k > Len(fields) THEN [errs |-> <<>>, raised |-> FALSE]
    ELSE LET r == CheckField(row_number, fields[k], row)
         IN  IF r.raised THEN r
             ELSE LET rest == FieldLoop(fields, row_number, row, k + 1)
                  IN  [errs |-> r.errs \o rest.errs, raised |-> rest.raised]

DecimalPrecisionCheck_validate_row(fields, row_number, row) ==
    FieldLoop(fields, row_number, row, 1)

\* --------------------------------------------------------- GeoLogicCheck
MIN_LAT == 24
MAX_LAT == 50
MIN_LON == -125
MAX_LON == -66

\* Mutant: the row is numbered from 0.
NullIslandError_zero_based(row_number) ==
    [code |-> "null-island-error", rowNumber |-> row_number - 1,
     fieldName |-> None, value |-> <<>>,
     note |-> [kind |-> "", observed |-> 0, limit |-> 0],
     precision |-> 0, scale |-> 0]

NullIslandError(row_number) ==
    [code |-> "null-island-error", rowNumber |-> row_number,
     fieldName |-> None, value |-> <<>>,
     note |-> [kind |-> "", observed |-> 0, limit |-> 0],
     precision |-> 0, scale |-> 0]

\* Mutant: the box without its border.
in_bounds_exclusive(lat_f, lon_f) ==
    /\ ~FloatLeq(lat_f, MIN_LAT) /\ ~LeqFloat(MAX_LAT, lat_f)
    /\ ~FloatLeq(lon_f, MIN_LON) /\ ~LeqFloat(MAX_LON, lon_f)
    /\ lat_f.cls # "nan" /\ lon_f.cls # "nan"

in_bounds(lat_f, lon_f) ==
    /\ LeqFloat(MIN_LAT, lat_f) /\ FloatLeq(lat_f, MAX_LAT)
    /\ LeqFloat(MIN_LON, lon_f) /\ FloatLeq(lon_f, MAX_LON)

swapped_ok(lat_f, lon_f) ==
    /\ LeqFloat(MIN_LAT, lon_f) /\ FloatLeq(lon_f, MAX_LAT)
    /\ LeqFloat(MIN_LON, lat_f) /\ FloatLeq(lat_f, MAX_LON)

\* The WARNING block printed for a row outside the box: the location, and
\* the "POSSIBLE SWAP DETECTED. Did you mean: lon, lat?" line when it applies.
Warning(row_number, lat_f, lon_f) ==
    [rowNumber |-> row_number, lat |-> lat_f, lon |-> lon_f,
     swap |-> IF swapped_ok(lat_f, lon_f) THEN Some(<<lon_f, lat_f>>) ELSE None]

\* Mutant: the out-of-bounds warning is yielded as an error as well.
GeoLogicCheck_validate_row_yields_warning(row_number, row) ==
    LET lat == row["lat"]
        lon == row["lon"]
        quiet == [errs |-> <<>>, out |-> <<>>]
    IN  IF IsNone(lat) \/ IsNone(lon) THEN quiet
        ELSE LET lat_f == float(The(lat))
                 lon_f == float(The(lon))
             IN  IF ~lat_f.ok \/ ~lon_f.ok THEN quiet
                 ELSE IF IsZeroFloat(lat_f) /\ IsZeroFloat(lon_f)
                 THEN [errs |-> <<NullIslandError(row_number)>>, out |-> <<>>]
                 ELSE IF in_bounds(lat_f, lon_f) THEN quiet
                 ELSE [errs |-> <<NullIslandError(row_number)>>,
                       out |-> <<Warning(row_number, lat_f, lon_f)>>]

\* Mutant: no `return` after the null-island error, so the bounds check runs.
GeoLogicCheck_validate_row_no_return(row_number, row) ==
    LET lat == row["lat"]
        lon == row["lon"]
        quiet == [errs |-> <<>>, out |-> <<>>]
    IN  IF IsNone(lat) \/ IsNone(lon) THEN quiet
        ELSE LET lat_f == float(The(lat))
                 lon_f == float(The(lon))
                 island == IF IsZeroFloat(lat_f) /\ IsZeroFloat(lon_f)
                           THEN <<NullIslandError(row_number)>> ELSE <<>>
             IN  IF ~lat_f.ok \/ ~lon_f.ok THEN quiet
                 ELSE IF in_bounds(lat_f, lon_f) THEN [errs |-> island, out |-> <<>>]
                 ELSE [errs |-> island, out |-> <<Warning(row_number, lat_f, lon_f)>>]

\* [errs, out]: the errors yielded and the warnings printed for one row.
GeoLogicCheck_validate_row(row_number, row) ==
    LET lat == row["lat"]
        lon == row["lon"]
        quiet == [errs |-> <<>>, out |-> <<>>]
    IN  IF IsNone(lat) \/ IsNone(lon) THEN quiet
        ELSE LET lat_f == float(The(lat))
                 lon_f == float(The(lon))
             IN  IF ~lat_f.ok \/ ~lon_f.ok THEN quiet
                 ELSE IF IsZeroFloat(lat_f) /\ IsZeroFloat(lon_f)
                 THEN [errs |-> <<NullIslandError(row_number)>>, out |-> <<>>]
                 ELSE IF in_bounds(lat_f, lon_f) THEN quiet
                 ELSE [errs |-> <<>>, out |-> <<Warning(row_number, lat_f, lon_f)>>]

\* --------------------------------------------------------------- the run
\* validate(data_file_path, schema=schema, checks=[DecimalPrecisionCheck(),
\* GeoLogicCheck()]): rows are read in file order; each row is given to the
\* checks in list order; what they yield is collected in that order.
ReadRow ==
    /\ pc = "read"
    /\ rowNumber < Len(file)
    /\ rowNumber' = rowNumber + 1
    /\ pc' = "decimal"
    /\ UNCHANGED <<schema, file, errors, stdout, report>>

RunDecimalPrecisionCheck ==
    /\ pc = "decimal"
    /\ LET r == DecimalPrecisionCheck_validate_row(schema, rowNumber, file[rowNumber])
       IN  /\ errors' = errors \o r.errs
           /\ pc' = IF r.raised THEN "raised" ELSE "geo"
    /\ UNCHANGED <<schema, file, rowNumber, stdout, report>>

RunGeoLogicCheck ==
    /\ pc = "geo"
    /\ LET r == GeoLogicCheck_validate_row(rowNumber, file[rowNumber])
       IN  /\ errors' = errors \o r.errs
           /\ stdout' = stdout \o r.out
    /\ pc' = "read"
    /\ UNCHANGED <<schema, file, rowNumber, report>>

\* validate() returns: report.valid, report.stats['errors'] and the task's
\* error list.
Report(errs) == [valid |-> Len(errs) = 0, errorCount |-> Len(errs), violations |-> errs]

Finish ==
    /\ pc = "read"
    /\ rowNumber = Len(file)
    /\ report' = Some(Report(errors))
    /\ pc' = "done"
    /\ UNCHANGED <<schema, file, rowNumber, errors, stdout>>

Next == ReadRow \/ RunDecimalPrecisionCheck \/ RunGeoLogicCheck \/ Finish

Start ==
    /\ rowNumber = 0
    /\ pc = "read"
    /\ errors = <<>>
    /\ stdout = <<>>
    /\ report = None

\* ---------------------------------------------------------------- inputs
Cell(t) == Some(t)

Row(value, lat, lon) == [name \in FieldNames |->
    CASE name = "value" -> value [] name = "lat" -> lat [] name = "lon" -> lon]

Field(name, type, required, constraints, custom) ==
    [name |-> name, type |-> type,
     constraints |-> [required |-> required,
                      decimalPrecision |-> constraints[1],
                      decimalScale |-> constraints[2]],
     custom |-> [decimalPrecision |-> custom[1], decimalScale |-> custom[2]]]

\* Every text of at most MaxLen characters over this alphabet: numerals with
\* leading and trailing zeros, with and without sign and point, and the
\* malformed ones ("", ".", "-", "1-1", "1.1.", ...).
Alphabet == {"0", "1", ".", "-"}
Texts == UNION {[1..k -> Alphabet] : k \in 0..MaxLen}

ExampleTexts ==
    {<<"1", "0", ".", "5", "0">>,
     <<"1", "2", "3", ".", "4", "5", "6">>,
     <<"1", "2", "3", "4", ".", "5", "6", "7", "8">>,
     <<"1", "2", "3", "4", "5", ".", "6">>,
     <<"+", "0", "0", "7", ".", "5">>,
     <<"a", "b", "c">>,
     <<"N", "a", "N">>,
     <<"-", "I", "n", "f">>,
     <<"I", "n", "f", "i", "n", "i", "t", "y">>}

ValueCells == {None} \cup {Cell(t) : t \in Texts \cup ExampleTexts}

OptPrec == {None} \cup {Some(p) : p \in 1..MaxPrec}
OptScale == {None} \cup {Some(s) : s \in 0..(MaxPrec - 1)}

\* The fields of the one-field schemas: every declaration of precision and
\* scale in constraints, the same with part of it declared as a custom
\* (top-level) property, other types, and the declarations of the examples.
Fields ==
    {Field("value", "number", r, <<p, s>>, <<None, None>>) :
        r \in {None, Some(TRUE)}, p \in OptPrec, s \in OptScale}
    \cup
    {Field("value", "number", r, <<p, s>>, c) :
        r \in {None, Some(TRUE)}, p \in {None, Some(2)}, s \in {None, Some(1)},
        c \in {<<Some(3), Some(2)>>, <<Some(3), None>>, <<None, Some(2)>>, <<Some(3), Some(0)>>}}
    \cup
    {Field("value", t, None, <<Some(2), Some(1)>>, <<None, None>>) :
        t \in {"string", "integer"}}
    \cup
    {Field("value", "number", None, <<Some(5), Some(2)>>, <<None, None>>),
     Field("value", "number", None, <<Some(6), Some(2)>>, <<None, None>>),
     Field("value", "number", None, <<Some(5), Some(0)>>, <<None, None>>)}

GeoTexts ==
    {<<"0">>, <<"0", ".", "0">>, <<"-", "0", ".", "0">>, <<"0", "0">>,
     <<"4", "0", ".", "0">>, <<"-", "7", "5", ".", "0">>,
     <<"2", "4">>, <<"5", "0", ".", "0">>, <<"2", "3", ".", "9">>, <<"5", "0", ".", "1">>,
     <<"-", "1", "2", "5">>, <<"-", "6", "6">>,
     <<"-", "1", "2", "5", ".", "1">>, <<"-", "6", "5", ".", "9", "9">>,
     <<"0", ".", "0", "1">>, <<"6", "0">>,
     <<"a", "b", "c">>, <<>>, <<"n", "a", "n">>, <<"i", "n", "f">>, <<"-", "i", "n", "f">>}

GeoCells == {None} \cup {Cell(t) : t \in GeoTexts}

\* The schema of the whole runs: a measured value with Decimal(6,2) or
\* Decimal(5,2), and the coordinates, with or without a declaration.
Schemas ==
    {<<Field("value", "number", None, <<Some(6), Some(2)>>, <<None, None>>),
       Field("lat", "number", Some(TRUE), <<None, None>>, <<None, None>>),
       Field("lon", "number", Some(TRUE), <<None, None>>, <<None, None>>)>>,
     <<Field("lat", "number", Some(TRUE), <<Some(9), Some(5)>>, <<None, None>>),
       Field("lon", "number", Some(TRUE), <<Some(9), Some(5)>>, <<None, None>>),
       Field("value", "number", None, <<Some(5), Some(2)>>, <<None, None>>)>>}

Rows ==
    {Row(Cell(<<"1", ".", "5">>), Cell(<<"4", "0", ".", "0">>), Cell(<<"-", "7", "5", ".", "0">>)),
     Row(Cell(<<"1", ".", "5">>), Cell(<<"0">>), Cell(<<"0">>)),
     Row(Cell(<<"1", "2", "3", "4", ".", "5", "6", "7", "8">>),
         Cell(<<"4", "0", ".", "0">>), Cell(<<"-", "7", "5", ".", "0">>)),
     Row(Cell(<<"1", ".", "5">>), Cell(<<"-", "7", "5", ".", "0">>), Cell(<<"4", "0", ".", "0">>)),
     Row(Cell(<<"1", "2", "3", ".", "4", "5", "6">>), Cell(<<"0", ".", "0">>), Cell(<<"-", "0", ".", "0">>)),
     Row(None, None, None),
     Row(Cell(<<"N", "a", "N">>), Cell(<<"4", "0", ".", "0">>), Cell(<<"-", "7", "5", ".", "0">>)),
     Row(Cell(<<"1", "2", "3", "4", "5", ".", "6">>), Cell(<<"6", "0">>), Cell(<<"-", "7", "5">>)),
     Row(Cell(<<"a", "b", "c">>), Cell(<<"a", "b", "c">>), Cell(<<"1">>))}

Files == UNION {[1..k -> Rows] : k \in 0..MaxRows}

\* -------------------------------------------------------- specifications
\* Whole runs over files of up to MaxRows rows.
Init == Start /\ schema \in Schemas /\ file \in Files
Spec == Init /\ [][Next]_vars

\* One-row files under a one-field schema: every declaration and every text.
InitField ==
    /\ Start
    /\ \E f \in Fields : schema = <<f>>
    /\ \E v \in ValueCells : file = <<Row(v, None, None)>>
SpecField == InitField /\ [][Next]_vars

\* One-row files: every pair of coordinate cells.
InitGeo ==
    /\ Start
    /\ schema \in Schemas
    /\ \E lat \in GeoCells, lon \in GeoCells, v \in {None, Cell(<<"1", ".", "5">>)} :
          file = <<Row(v, lat, lon)>>
SpecGeo == InitGeo /\ [][Next]_vars

\* ============================================================== the claims
\* What the claims speak of, read off the inputs without the code's parsing.

\* Rows the Precision/Scale rule has been run on, and rows the Geo rule has.
DecimalDone == {i \in 1..rowNumber : i < rowNumber \/ pc # "decimal"}
GeoDone == {i \in 1..rowNumber : i < rowNumber \/ pc \in {"read", "done"}}

\* A plain decimal numeral: an optional sign, digits, at most one point.
PlainNumeral(t) ==
    LET body == {i \in 1..Len(t) : ~(i = 1 /\ t[i] \in {"-", "+"})}
    IN  /\ \A i \in body : t[i] \in Digits \cup {"."}
        /\ Cardinality({i \in body : t[i] = "."}) <= 1
        /\ \E i \in body : t[i] \in Digits

\* The number of digits written after the decimal point.
DigitsAfterPoint(t) ==
    Cardinality({i \in 1..Len(t) : t[i] \in Digits /\ \E j \in 1..(i - 1) : t[j] = "."})

\* The length of the digit sequence: the digits written, without the zeros
\* that lead them (a lone 0 is kept).
DigitSequenceLen(t) ==
    LET nz == {i \in 1..Len(t) : t[i] \in Digits \ {"0"}}
    IN  IF nz = {} THEN 1
        ELSE Cardinality({i \in 1..Len(t) : t[i] \in Digits /\ \E j \in nz : j <= i})

SqlScale(t) == DigitsAfterPoint(t)
SqlPrecision(t) == Max(0, DigitSequenceLen(t) - SqlScale(t)) + SqlScale(t)

\* A numeral that is zero: every digit written is a 0.
ZeroCell(c) ==
    /\ ~IsNone(c)
    /\ PlainNumeral(The(c))
    /\ \A i \in 1..Len(The(c)) : The(c)[i] \in Digits => The(c)[i] = "0"

\* The field declares the key, in its constraints or as a custom property.
DeclaresPrecision(f) ==
    ~IsNone(f.constraints.decimalPrecision) \/ ~IsNone(f.custom.decimalPrecision)
DeclaresScale(f) ==
    ~IsNone(f.constraints.decimalScale) \/ ~IsNone(f.custom.decimalScale)

\* The decimal-precision-errors reported for row i, field k of the schema.
FieldErrors(i, k) ==
    {e \in 1..Len(errors) : /\ errors[e].code = "decimal-precision-error"
                           /\ errors[e].rowNumber = i
                           /\ errors[e].fieldName = Some(schema[k].name)}
NullIslandErrors(i) ==
    {e \in 1..Len(errors) : errors[e].code = "null-island-error" /\ errors[e].rowNumber = i}
Advisories(i) == {w \in 1..Len(stdout) : stdout[w].rowNumber = i}

\* What the field declares: the constraint, or else the custom property.
DeclaredPrecision(f) ==
    IF ~IsNone(f.constraints.decimalPrecision) THEN f.constraints.decimalPrecision
    ELSE f.custom.decimalPrecision
DeclaredScale(f) ==
    IF ~IsNone(f.constraints.decimalScale) THEN f.constraints.decimalScale
    ELSE f.custom.decimalScale

\* The cell of row i under field k of the schema.
CellOf(i, k) == file[i][schema[k].name]
HasNumeral(i, k) == ~IsNone(CellOf(i, k)) /\ PlainNumeral(The(CellOf(i, k)))

\* C1: for every number field whose constraints declare both a positive
\* decimalPrecision and a non-negative decimalScale (0 included) and every
\* non-null classifiable value, a decimal-precision-error is emitted for the
\* field exactly when scale > maxScale or precision > maxPrecision.
C1_EmitsIffExceeded ==
    \A i \in DecimalDone : \A k \in 1..Len(schema) :
        LET f == schema[k]
            c == f.constraints
        IN  ( /\ f.type = "number"
              /\ ~IsNone(c.decimalPrecision) /\ ~IsNone(c.decimalScale)
              /\ HasNumeral(i, k)
              /\ The(c.decimalPrecision) >= 1 /\ The(c.decimalScale) >= 0 )
            => ( FieldErrors(i, k) # {}
                 <=> \/ SqlScale(The(CellOf(i, k))) > The(c.decimalScale)
                     \/ SqlPrecision(The(CellOf(i, k))) > The(c.decimalPrecision) )

\* C2: at most one decimal-precision-error per field per row, and when the
\* scale exceeds maxScale that error cites the scale (observed scale against
\* maxScale), also when the precision exceeds maxPrecision too; "123.456"
\* against Decimal(5,2) gives one error citing scale 3 > 2.
C2_ScaleBeforePrecision ==
    \A i \in DecimalDone : \A k \in 1..Len(schema) :
        /\ Cardinality(FieldErrors(i, k)) <= 1
        /\ \A e \in FieldErrors(i, k) :
              ( HasNumeral(i, k)
                /\ SqlScale(The(CellOf(i, k))) > The(DeclaredScale(schema[k])) )
              => errors[e].note = [kind |-> "Scale",
                                   observed |-> SqlScale(The(CellOf(i, k))),
                                   limit |-> The(DeclaredScale(schema[k]))]
        /\ ( /\ CellOf(i, k) = Cell(<<"1", "2", "3", ".", "4", "5", "6">>)
             /\ schema[k].type = "number"
             /\ schema[k].constraints.decimalPrecision = Some(5)
             /\ schema[k].constraints.decimalScale = Some(2) )
           => \E e \in FieldErrors(i, k) :
                 errors[e].note = [kind |-> "Scale", observed |-> 3, limit |-> 2]

C2_Witness ==
    /\ 1 \in DecimalDone
    /\ CellOf(1, 1) = Cell(<<"1", "2", "3", ".", "4", "5", "6">>)
    /\ schema[1].constraints.decimalPrecision = Some(5)
    /\ schema[1].constraints.decimalScale = Some(2)
    /\ Cardinality(FieldErrors(1, 1)) = 1

\* The classification of a text: what the rule compares with the limits.
Classify(t) ==
    LET dt == Decimal(t)
    IN  [scale |-> scale_of(dt), precision |-> int_part_of(dt) + scale_of(dt)]

\* The same numeral written with one more leading zero.
WithLeadingZero(t) == IF HasSign(t) THEN <<t[1], "0">> \o Tail(t) ELSE <<"0">> \o t

\* C7: for every value given as decimal text the computed scale is the number
\* of digits written after the point (trailing zeros counted) and the
\* computed precision is max(0, len(digit_sequence) - scale) + scale; scale >=
\* 0, precision >= scale, a text without a fractional part has scale 0, and a
\* leading zero changes nothing; "10.50" has scale 2 and precision 4.  The
\* numbers an error cites are these.
C7_ExactClassification ==
    \A i \in 1..Len(file) : \A k \in 1..Len(schema) :
        HasNumeral(i, k) =>
            LET t == The(CellOf(i, k))
                dt == Decimal(t)
                cl == Classify(t)
            IN  /\ dt.ok /\ ~dt.is_special
                /\ cl.scale = DigitsAfterPoint(t)
                /\ cl.precision = SqlPrecision(t)
                /\ cl.scale >= 0 /\ cl.precision >= cl.scale
                /\ (\A j \in 1..Len(t) : t[j] # ".") => cl.scale = 0
                /\ Classify(WithLeadingZero(t)) = cl
                /\ t = <<"1", "0", ".", "5", "0">> => cl = [scale |-> 2, precision |-> 4]
                /\ \A e \in FieldErrors(i, k) :
                      errors[e].note.observed =
                          IF errors[e].note.kind = "Scale" THEN SqlScale(t) ELSE SqlPrecision(t)

C7_Witness ==
    /\ 1 \in DecimalDone
    /\ CellOf(1, 1) = Cell(<<"0", ".", "0", "1">>)
    /\ \E e \in FieldErrors(1, 1) :
          errors[e].note = [kind |-> "Precision", observed |-> 2, limit |-> 1]

BothParse(i) ==
    /\ ~IsNone(file[i]["lat"]) /\ ~IsNone(file[i]["lon"])
    /\ float(The(file[i]["lat"])).ok /\ float(The(file[i]["lon"])).ok
LatOf(i) == float(The(file[i]["lat"]))
LonOf(i) == float(The(file[i]["lon"]))
NullIsland(i) == ZeroCell(file[i]["lat"]) /\ ZeroCell(file[i]["lon"])

\* 24 <= lat <= 50 and -125 <= lon <= -66, bounds included.
InBox(lat, lon) ==
    /\ LeqFloat(24, lat) /\ FloatLeq(lat, 50)
    /\ LeqFloat(-125, lon) /\ FloatLeq(lon, -66)

\* C3: a row whose lat and lon are both exactly 0 ("0", "0.0", "-0.0", ...)
\* gets exactly one null-island-error and no advisory, whatever its other
\* cells hold.
C3_NullIslandPriority ==
    \A i \in GeoDone :
        NullIsland(i) => /\ Cardinality(NullIslandErrors(i)) = 1
                         /\ Advisories(i) = {}

C3_Witness ==
    /\ 1 \in GeoDone
    /\ file[1]["lat"] = Cell(<<"0", ".", "0">>)
    /\ file[1]["lon"] = Cell(<<"-", "0", ".", "0">>)
    /\ ~IsNone(file[1]["value"])
    /\ Cardinality(NullIslandErrors(1)) = 1

\* C5: a row whose lat and lon are present, parse and are not both 0 gets no
\* advisory inside the box (bounds included) and exactly one, carrying the
\* observed (lat, lon), outside it; the advisory has a swap hint exactly when
\* (lon, lat) lies in the box, and the hint is (lon, lat).  lat=-75, lon=40
\* gives one advisory suggesting (40.0, -75.0); lat=40, lon=-75 gives none.
C5_BoundsAdvisory ==
    \A i \in GeoDone :
        (BothParse(i) /\ ~NullIsland(i)) =>
            /\ NullIslandErrors(i) = {}
            /\ InBox(LatOf(i), LonOf(i)) => Advisories(i) = {}
            /\ ~InBox(LatOf(i), LonOf(i)) =>
                  /\ Cardinality(Advisories(i)) = 1
                  /\ \A w \in Advisories(i) :
                        /\ stdout[w].lat = LatOf(i) /\ stdout[w].lon = LonOf(i)
                        /\ stdout[w].swap =
                              IF InBox(LonOf(i), LatOf(i))
                              THEN Some(<<LonOf(i), LatOf(i)>>) ELSE None
            /\ ( /\ file[i]["lat"] = Cell(<<"-", "7", "5", ".", "0">>)
                 /\ file[i]["lon"] = Cell(<<"4", "0", ".", "0">>) )
               => \E w \in Advisories(i) :
                     stdout[w].swap = Some(<<float(<<"4", "0", ".", "0">>),
                                            float(<<"-", "7", "5", ".", "0">>)>>)

C5_Witness ==
    /\ 1 \in GeoDone
    /\ file[1]["lat"] = Cell(<<"-", "7", "5", ".", "0">>)
    /\ file[1]["lon"] = Cell(<<"4", "0", ".", "0">>)
    /\ Cardinality(Advisories(1)) = 1
    /\ \A w \in Advisories(1) : ~IsNone(stdout[w].swap)

\* The value of row i under field k exceeds what the field declares.
Exceeds(i, k) ==
    /\ schema[k].type = "number"
    /\ DeclaresPrecision(schema[k]) /\ DeclaresScale(schema[k])
    /\ HasNumeral(i, k)
    /\ \/ SqlScale(The(CellOf(i, k))) > The(DeclaredScale(schema[k]))
       \/ SqlPrecision(The(CellOf(i, k))) > The(DeclaredPrecision(schema[k]))

\* C4: the report is valid exactly when errorCount is 0; errorCount counts the
\* hard violations only, each of which is a decimal-precision-error of a value
\* that exceeds its declaration or a null-island-error of a row at (0, 0); an
\* out-of-bounds or possible-swap advisory adds nothing, so a file whose only
\* findings are advisories is valid.
C4_AdvisoriesNeverCount ==
    pc = "done" =>
        LET r == The(report)
        IN  /\ r.valid <=> r.errorCount = 0
            /\ r.errorCount = Len(r.violations)
            /\ \A v \in 1..Len(r.violations) :
                  LET e == r.violations[v]
                  IN  \/ /\ e.code = "null-island-error"
                         /\ NullIsland(e.rowNumber)
                      \/ /\ e.code = "decimal-precision-error"
                         /\ \E k \in 1..Len(schema) :
                               /\ e.fieldName = Some(schema[k].name)
                               /\ Exceeds(e.rowNumber, k)
            /\ ( \A i \in 1..Len(file) :
                    ~NullIsland(i) /\ \A k \in 1..Len(schema) : ~Exceeds(i, k) )
               => r.valid

C4_Witness ==
    /\ pc = "done"
    /\ Len(stdout) = 2
    /\ The(report).valid
    /\ The(report).errorCount = 0

\* The rows of the end-to-end example.
ValidRow == Row(Cell(<<"1", ".", "5">>), Cell(<<"4", "0", ".", "0">>), Cell(<<"-", "7", "5", ".", "0">>))
NullIslandRow == Row(Cell(<<"1", ".", "5">>), Cell(<<"0">>), Cell(<<"0">>))
ScaleRow == Row(Cell(<<"1", "2", "3", "4", ".", "5", "6", "7", "8">>),
                Cell(<<"4", "0", ".", "0">>), Cell(<<"-", "7", "5", ".", "0">>))
IsExample ==
    /\ file = <<ValidRow, NullIslandRow, ScaleRow>>
    /\ \E k \in 1..Len(schema) :
          /\ schema[k].name = "value"
          /\ schema[k].constraints.decimalPrecision = Some(6)
          /\ schema[k].constraints.decimalScale = Some(2)

\* The number of report entries of row i with the given code.
Reported(i, code) ==
    Cardinality({v \in 1..Len(The(report).violations) :
        /\ The(report).violations[v].rowNumber = i
        /\ The(report).violations[v].code = code})

\* C8: the report holds the hard violations of the two rules, row by row, in
\* ascending row-number order, and errorCount is their number; the 3-row
\* example (valid row, lat=0 lon=0, "1234.5678" against Decimal(6,2)) gives
\* errorCount 2, valid false, the null-island-error of row 2 first and the
\* decimal-precision-error of row 3 second.
C8_ReportOrder ==
    pc = "done" =>
        LET r == The(report)
        IN  /\ \A a, b \in 1..Len(r.violations) :
                  a < b => r.violations[a].rowNumber <= r.violations[b].rowNumber
            /\ \A v \in 1..Len(r.violations) : r.violations[v].rowNumber \in 1..Len(file)
            /\ \A i \in 1..Len(file) :
                  /\ Reported(i, "null-island-error") = IF NullIsland(i) THEN 1 ELSE 0
                  /\ Reported(i, "decimal-precision-error") =
                        Cardinality({k \in 1..Len(schema) : Exceeds(i, k)})
            /\ r.errorCount = Len(r.violations)
            /\ IsExample =>
                  /\ r.errorCount = 2 /\ ~r.valid
                  /\ r.violations[1].code = "null-island-error"
                  /\ r.violations[1].rowNumber = 2
                  /\ r.violations[2].code = "decimal-precision-error"
                  /\ r.violations[2].rowNumber = 3

C8_Witness == pc = "done" /\ IsExample /\ The(report).errorCount = 2

\* What the rules produced for row i, without the row number.
Anonymous(seq) == [j \in 1..Len(seq) |-> [seq[j] EXCEPT !.rowNumber = 0]]
RowOutput(i) ==
    [errs |-> Anonymous(SelectSeq(errors, LAMBDA e : e.rowNumber = i)),
     out |-> Anonymous(SelectSeq(stdout, LAMBDA w : w.rowNumber = i))]

\* C10: what the rules produce for a row does not depend on the rows
\* evaluated before it: equal rows at different places of a file get equal
\* violations and advisories; and no step changes a row or the schema.
C10_SameRowSameOutput ==
    \A i \in GeoDone : \A j \in GeoDone :
        file[i] = file[j] => RowOutput(i) = RowOutput(j)

C6_ParseFailuresSwallowed ==
    /\ pc # "raised"
    /\ \A i \in DecimalDone : \A k \in 1..Len(schema) :
          (~IsNone(CellOf(i, k)) /\ ~PlainNumeral(The(CellOf(i, k))))
              => FieldErrors(i, k) = {}
    /\ \A i \in GeoDone :
          ~BothParse(i) => NullIslandErrors(i) = {} /\ Advisories(i) = {}

====
